---- MODULE Spec2Model ----
(***************************************************************************)
(* Measurement pipeline of application/widgets/measure_group.py:           *)
(* MeasureGroup (the controller, running in the GUI thread), the           *)
(* ReceiverProcess and ProcessorProcess it starts as processes, and the    *)
(* PlotterThread it starts as a QThread.  Sessions are numbered 1, 2, ...  *)
(* in the order start_measure accepts them; the objects start_measure      *)
(* allocates for a session (queues, record, workers) carry that number.    *)
(*                                                                         *)
(* Granularity.  start_measure is cut where the processes it has started   *)
(* run beside it: after line 223 (Receiver and Processor started) and      *)
(* before line 231 (the flag is written).  A worker step is the set-up of  *)
(* the device, one read_data call, or one pass of a polling loop, with the *)
(* queue operations and flag writes that follow it in the code up to the   *)
(* next read or poll.                                                      *)
(***************************************************************************)
EXTENDS Integers, Sequences, FiniteSets, TLC

\* ------------------------------------------------------------------ bounds
MaxSessions == 2       \* start requests accepted in one run, in the runs with several sessions
MaxChannel == 2        \* channels 1..MaxChannel can be selected
MaxFails == 1          \* read_data calls of one Receiver that return ok = false
MaxFaults == 1         \* DeviceError raised in one run
MaxTick == 2           \* longest time one read_data call takes, in clock ticks
MaxEdits == 1          \* changes the operator makes to the configuration store in one run
ShortDuration == 1     \* the durations the spin box is tried with, in clock ticks
LongDuration == 2
MaxElements == 2       \* largest elements-per-request the spin box is tried with

Channels == 1..MaxChannel
Durations == {ShortDuration, LongDuration}
Elements == 1..MaxElements
\* every session number a run can use
Sessions == 1..MaxSessions
\* the signals read_data can be given to read
Readings == {<<1, 2>>, <<3, 3>>}

\* ------------------------------------------------------- log queue messages
MsgInitialized == "Device initialized and created!"
MsgConnected == "Device state is connected!"
MsgSampling == "Device sampling parameters configured!"
MsgAdc == "Device ADC channel configured!"
MsgStarted == "Device started collection!"
MsgDisconnected == "Device disconnected!"
MsgError == "!ERROR! DeviceError"
MsgFinished == "Receiver finished."

VARIABLES
    \* MeasureGroup (GUI thread)
    gui_pc,              \* "idle", or "start225": start_measure is between lines 223 and 225
    cur,                 \* session whose objects self.data_queue, self.log_queue, self.measure name (0: None)
    btn_start_enabled,   \* self.btn_start.isEnabled()
    log_timer,           \* a log_timer has been started
    state_is_measuring,  \* self.state["is_measuring"], the manager dict entry
    last_start,          \* how the last start_measure call ended: "none", "rejected", "accepted"
    plot_clears,         \* plot_widget.clear() calls so far
    finished_pending,    \* per session: emissions of thread_plotter.finished not yet delivered
    \* the configuration store (class State)
    State_is_measuring,
    State_selected_channels,
    State_is_average,
    State_duration,
    State_read_elements_count,
    \* per session objects
    receiver,            \* ReceiverProcess: pc, position in the sweep, clock, snapshot
    processor,           \* ProcessorProcess: pc, is_average
    plotter,             \* PlotterThread: pc
    data_queue,
    processed_queue,
    log_queue,
    measure,             \* the record: data, save(finish=False) and save(finish=True) counts
    daq,                 \* the device session of the Receiver: "none", "open", "closed"; disconnect count
    \* the environment of the run and the histories kept for the properties
    env,                 \* what the operator and the device may do in this run
    faults,              \* DeviceError raised so far
    edits,               \* configuration changes so far
    sent,                \* per session: bursts the Receiver put on data_queue
    log_hist,            \* per session: lines the Receiver put on log_queue
    published,           \* per session: batches emitted through plot_data
    stop_written         \* per session: False was written to state["is_measuring"] since its start

vars == <<gui_pc, cur, btn_start_enabled, log_timer, state_is_measuring, last_start,
          plot_clears, finished_pending, State_is_measuring, State_selected_channels,
          State_is_average, State_duration, State_read_elements_count, receiver, processor, plotter, data_queue,
          processed_queue, log_queue, measure, daq, env, faults, edits, sent, log_hist,
          published, stop_written>>

gui_vars == <<gui_pc, cur, btn_start_enabled, log_timer, last_start, plot_clears>>
store_vars == <<State_is_measuring, State_selected_channels, State_is_average, State_duration,
                State_read_elements_count>>
config_vars == <<State_selected_channels, State_is_average, State_duration,
                 State_read_elements_count>>
worker_vars == <<receiver, processor, plotter>>
queue_vars == <<data_queue, processed_queue, log_queue>>
hist_vars == <<sent, log_hist, published>>
env_vars == <<env, faults, edits>>

\* ------------------------------------------------------------------ helpers
Min(S) == CHOOSE x \in S : \A y \in S : x <= y

\* sorted([_ for _ in State.selected_channels])
RECURSIVE Sorted(_)
Sorted(S) == IF S = {} THEN <<>> ELSE <<Min(S)>> \o Sorted(S \ {Min(S)})

RECURSIVE SumSeq(_)
SumSeq(q) == IF q = <<>> THEN 0 ELSE Head(q) + SumSeq(Tail(q))

RECURSIVE Gcd(_, _)
Gcd(a, b) == IF b = 0 THEN a ELSE Gcd(b, a % b)

\* np.mean(data["voltage"]): the exact mean, as the fraction <<numerator, denominator>> in lowest terms
Mean(q) == LET g == Gcd(SumSeq(q), Len(q)) IN <<SumSeq(q) \div g, Len(q) \div g>>

RECURSIVE Count(_, _)
Count(x, q) == IF q = <<>> THEN 0 ELSE (IF Head(q) = x THEN 1 ELSE 0) + Count(x, Tail(q))

\* a clock value past every duration the model tries stands for all later times
ClockCap == LongDuration + 1
Advance(clock, t) == IF clock + t > ClockCap THEN ClockCap ELSE clock + t

\* ---------------------------------------------------------- initial values
\* lines 144-146: the manager dict MeasureGroup allocates, once, in __init__
self_state == "self.manager.dict()"

NoReceiver == [pc |-> "new", idx |-> 0, clock |-> 0, fails |-> 0, duration |-> 0,
               selected_channels |-> <<>>, exit |-> "none", expired |-> FALSE, reads |-> 0,
               read_elements_count |-> 0, data_queue |-> 0, log_queue |-> 0, state |-> "None"]
NoProcessor == [pc |-> "new", is_average |-> FALSE, data_queue |-> 0, processed_queue |-> 0,
                state |-> "None"]
NoPlotter == [pc |-> "new"]
NoMeasure == [data |-> <<>>, saved |-> 0, finished |-> 0]
NoDaq == [st |-> "none", disconnects |-> 0]

\* MeasureGroup.__init__, lines 137-146: no workers, no queues, no record,
\* state["is_measuring"] False, the start button enabled
InitController ==
    /\ gui_pc = "idle"
    /\ cur = 0
    /\ btn_start_enabled = TRUE
    /\ log_timer = FALSE
    /\ state_is_measuring = FALSE
    /\ last_start = "none"
    /\ plot_clears = 0
    /\ finished_pending = [s \in Sessions |-> 0]
    /\ receiver = [s \in Sessions |-> NoReceiver]
    /\ processor = [s \in Sessions |-> NoProcessor]
    /\ plotter = [s \in Sessions |-> NoPlotter]
    /\ data_queue = [s \in Sessions |-> <<>>]
    /\ processed_queue = [s \in Sessions |-> <<>>]
    /\ log_queue = [s \in Sessions |-> <<>>]
    /\ measure = [s \in Sessions |-> NoMeasure]
    /\ daq = [s \in Sessions |-> NoDaq]
    /\ faults = 0
    /\ edits = 0
    /\ sent = [s \in Sessions |-> <<>>]
    /\ log_hist = [s \in Sessions |-> <<>>]
    /\ published = [s \in Sessions |-> <<>>]
    /\ stop_written = [s \in Sessions |-> FALSE]
    /\ State_read_elements_count = MaxElements

\* The store's is_measuring, selection, averaging flag and duration are whatever the
\* application left there (read at lines 122, 196, 204, 85, 156).  A run fixes what
\* the device and the operator may do in it (env).

\* One session against a device that may refuse a call, fail a read, raise
\* DeviceError, and take one or more ticks for a read.
InitDevice ==
    /\ InitController
    /\ env = [sessions |-> 1, faults |-> MaxFaults, fails |-> MaxFails, edits |-> 0,
              ticks |-> 1..MaxTick, readings |-> {<<1, 2>>}, refuse |-> TRUE]
    /\ State_is_measuring \in BOOLEAN
    /\ State_selected_channels = Channels
    /\ State_is_average = TRUE
    /\ State_duration \in Durations

\* One session against a device that works, for every selection, with and
\* without averaging, and with different readings.
InitData ==
    /\ InitController
    /\ env = [sessions |-> 1, faults |-> 0, fails |-> 0, edits |-> 0,
              ticks |-> {1}, readings |-> Readings, refuse |-> FALSE]
    /\ State_is_measuring \in BOOLEAN
    /\ State_selected_channels \in SUBSET Channels
    /\ State_is_average \in BOOLEAN
    /\ State_duration = ShortDuration

\* One session, with the operator changing the configuration store.
InitOperator ==
    /\ InitController
    /\ env = [sessions |-> 1, faults |-> 0, fails |-> 0, edits |-> MaxEdits,
              ticks |-> {1}, readings |-> {<<1, 2>>}, refuse |-> FALSE]
    /\ State_is_measuring \in BOOLEAN
    /\ State_selected_channels \in SUBSET Channels
    /\ State_is_average = TRUE
    /\ State_duration = ShortDuration

\* Several sessions, one after the other, against a device that works and is slow.
InitSessions ==
    /\ InitController
    /\ env = [sessions |-> MaxSessions, faults |-> 0, fails |-> 0, edits |-> 0,
              ticks |-> {MaxTick}, readings |-> {<<1, 2>>}, refuse |-> FALSE]
    /\ State_is_measuring = FALSE
    /\ State_selected_channels = {1}
    /\ State_is_average = TRUE
    /\ State_duration = ShortDuration

Init == InitDevice \/ InitData \/ InitOperator

\* The runs with several sessions, and the operator's changes to the store.
InitSeq == InitSessions \/ InitOperator

\* The runs checked under fairness: one session with one channel selected, against
\* a device that may refuse, fail a read or raise DeviceError, or with an operator
\* who changes the store.
InitFair ==
    /\ InitController
    /\ env \in {[sessions |-> 1, faults |-> MaxFaults, fails |-> MaxFails, edits |-> 0,
                 ticks |-> {1}, readings |-> {<<1, 2>>}, refuse |-> TRUE],
                [sessions |-> 1, faults |-> 0, fails |-> 0, edits |-> MaxEdits,
                 ticks |-> {1}, readings |-> {<<1, 2>>}, refuse |-> FALSE]}
    /\ State_is_measuring \in BOOLEAN
    /\ State_selected_channels = {1}
    /\ State_is_average = TRUE
    /\ State_duration = ShortDuration

\* --------------------------------------------------- MeasureGroup, GUI thread
\* a start_measure without the check of line 196
EmptySelectionUnchecked(sel) == FALSE

\* line 196: if not len(State.selected_channels): return
EmptySelection(sel) == Cardinality(sel) = 0

\* record data of lines 204-212
NewRecordData(sel) == [c \in sel |-> [voltage |-> <<>>, time |-> <<>>]]

\* ReceiverProcess.__init__, lines 20-29: the arguments of line 216 are kept, the
\* selection is read from the store (line 29).  A queue is named by the number of
\* the start_measure call that allocated it (lines 200-202).
NewReceiver(duration, dq, lq, state) ==
    [pc |-> "setup", idx |-> 0, clock |-> 0, fails |-> 0, duration |-> duration,
     selected_channels |-> Sorted(State_selected_channels), exit |-> "none",
     expired |-> FALSE, reads |-> 0, read_elements_count |-> State_read_elements_count,
     data_queue |-> dq, log_queue |-> lq, state |-> state]

\* ProcessorProcess.__init__, lines 81-87: the arguments of line 221 are kept, the
\* averaging flag is read from the store (line 85)
NewProcessor(dq, pq, state) ==
    [pc |-> "while", is_average |-> State_is_average, data_queue |-> dq,
     processed_queue |-> pq, state |-> state]

\* a write of False to state["is_measuring"] counts for every session started so far
StopWritten == [s \in Sessions |-> stop_written[s] \/ s <= cur]

\* start_measure, lines 195-223: the check, the display, the allocations, the record
\* header and the start of the Receiver and the Processor processes
StartMeasure1 ==
    /\ gui_pc = "idle"
    /\ btn_start_enabled
    /\ IF EmptySelection(State_selected_channels)
       THEN /\ last_start' = "rejected"
            /\ UNCHANGED <<gui_pc, cur, plot_clears, receiver, processor, measure>>
       ELSE /\ cur < env.sessions
            /\ last_start' = "accepted"
            /\ cur' = cur + 1
            /\ plot_clears' = plot_clears + 1
            /\ measure' = [measure EXCEPT ![cur + 1] =
                   [data |-> NewRecordData(State_selected_channels), saved |-> 1, finished |-> 0]]
            /\ receiver' = [receiver EXCEPT ![cur + 1] =
                   NewReceiver(State_duration, cur + 1, cur + 1, self_state)]
            /\ processor' = [processor EXCEPT ![cur + 1] =
                   NewProcessor(cur + 1, cur + 1, self_state)]
            /\ gui_pc' = "start225"
    /\ UNCHANGED <<btn_start_enabled, log_timer, state_is_measuring, finished_pending,
                   store_vars, plotter, queue_vars, daq, env_vars, hist_vars, stop_written>>

\* start_measure, lines 225-236: the plotter thread, the start button, the flag, the timer
StartMeasure2 ==
    /\ gui_pc = "start225"
    /\ plotter' = [plotter EXCEPT ![cur] = [pc |-> "while"]]
    /\ btn_start_enabled' = FALSE
    /\ state_is_measuring' = TRUE
    /\ log_timer' = TRUE
    /\ gui_pc' = "idle"
    /\ UNCHANGED <<cur, last_start, plot_clears, finished_pending, store_vars, receiver,
                   processor, queue_vars, measure, daq, env_vars, hist_vars, stop_written>>

\* stop_measure, lines 245-249
StopMeasure ==
    /\ gui_pc = "idle"
    /\ State_is_measuring' = FALSE
    /\ state_is_measuring' = FALSE
    /\ stop_written' = StopWritten
    /\ UNCHANGED <<gui_vars, finished_pending, config_vars, worker_vars, queue_vars,
                   measure, daq, env_vars, hist_vars>>

\* a check_log_queue that never recognises the sentinel
IsSentinelNever(message) == FALSE

\* line 242: if message == "Receiver finished."
IsSentinel(message) == message = MsgFinished

\* check_log_queue, lines 238-243, run by the timer: every line waiting on
\* self.log_queue is logged; the sentinel calls stop_measure
CheckLogQueue ==
    /\ gui_pc = "idle"
    /\ log_timer
    /\ log_queue[cur] # <<>>
    /\ log_queue' = [log_queue EXCEPT ![cur] = <<>>]
    /\ IF \E i \in 1..Len(log_queue[cur]) : IsSentinel(log_queue[cur][i])
       THEN /\ State_is_measuring' = FALSE
            /\ state_is_measuring' = FALSE
            /\ stop_written' = StopWritten
       ELSE UNCHANGED <<State_is_measuring, state_is_measuring, stop_written>>
    /\ UNCHANGED <<gui_vars, finished_pending, config_vars, worker_vars, data_queue,
                   processed_queue, measure, daq, env_vars, hist_vars>>

\* finish_measure, lines 251-257, and the lambda of line 228, run for one
\* delivered emission of the finished signal of session s's plotter
FinishMeasure(s) ==
    /\ gui_pc = "idle"
    /\ finished_pending[s] > 0
    /\ finished_pending' = [finished_pending EXCEPT ![s] = @ - 1]
    /\ measure' = [measure EXCEPT ![cur].finished = @ + 1]
    /\ State_is_measuring' = FALSE
    /\ btn_start_enabled' = TRUE
    /\ UNCHANGED <<gui_pc, cur, log_timer, state_is_measuring, last_start, plot_clears,
                   config_vars, worker_vars, queue_vars, daq, env_vars, hist_vars,
                   stop_written>>

\* set_duration, line 264
SetDuration(d) ==
    /\ gui_pc = "idle"
    /\ edits < env.edits
    /\ d # State_duration
    /\ State_duration' = d
    /\ edits' = edits + 1
    /\ UNCHANGED <<gui_vars, state_is_measuring, finished_pending, State_is_measuring,
                   State_selected_channels, State_is_average, State_read_elements_count,
                   worker_vars, queue_vars, measure, daq, env, faults, hist_vars, stop_written>>

\* set_average, lines 275-277
SetAverage(b) ==
    /\ gui_pc = "idle"
    /\ edits < env.edits
    /\ b # State_is_average
    /\ State_is_average' = b
    /\ edits' = edits + 1
    /\ UNCHANGED <<gui_vars, state_is_measuring, finished_pending, State_is_measuring,
                   State_selected_channels, State_duration, State_read_elements_count,
                   worker_vars, queue_vars, measure, daq, env, faults, hist_vars, stop_written>>

\* set_read_elements, line 272
SetReadElements(n) ==
    /\ gui_pc = "idle"
    /\ edits < env.edits
    /\ n # State_read_elements_count
    /\ State_read_elements_count' = n
    /\ edits' = edits + 1
    /\ UNCHANGED <<gui_vars, state_is_measuring, finished_pending, State_is_measuring,
                   State_selected_channels, State_is_average, State_duration,
                   worker_vars, queue_vars, measure, daq, env, faults, hist_vars, stop_written>>

\* the channel selection of the store, read at lines 29, 196 and 204, changed by the operator
SelectChannels(sel) ==
    /\ gui_pc = "idle"
    /\ edits < env.edits
    /\ sel # State_selected_channels
    /\ State_selected_channels' = sel
    /\ edits' = edits + 1
    /\ UNCHANGED <<gui_vars, state_is_measuring, finished_pending, State_is_measuring,
                   State_is_average, State_duration, State_read_elements_count,
                   worker_vars, queue_vars, measure, daq, env, faults, hist_vars, stop_written>>

\* ------------------------------------------------------------ ReceiverProcess
\* a with block that leaves the device session as it is
DisconnectNever(d) == d

\* leaving the with block of line 34 disconnects the device
Disconnect(d) == [st |-> "closed", disconnects |-> d.disconnects + 1]

\* a finish() that logs nothing
FinishLinesNone == <<>>

\* finish(), lines 75-77: the line it logs (the flag write is in the calling step)
FinishLines == <<MsgFinished>>

\* an except branch that logs no tagged line
ExceptLinesUntagged == FinishLines

\* lines 71-73: the lines of the except branch, finish() included
ExceptLines == <<MsgError>> \o FinishLines

PutLogs(s, lines) ==
    /\ log_queue' = [log_queue EXCEPT ![s] = @ \o lines]
    /\ log_hist' = [log_hist EXCEPT ![s] = @ \o lines]

\* the for loop of line 60 goes to the next channel, or back to the while of line 59
NextPos(r) ==
    IF r.idx < Len(r.selected_channels)
    THEN [r EXCEPT !.pc = "read", !.idx = @ + 1]
    ELSE [r EXCEPT !.pc = "while", !.idx = 0]

\* a check against the duration the store holds now
ExpiredLive(elapsed, duration) == elapsed > State_duration

\* line 67: if duration > self.duration
Expired(elapsed, duration) == elapsed > duration

\* the lines logged by lines 35, 40, 46, 52, 55 as the set-up goes on
SetupLogs == <<MsgInitialized, MsgConnected, MsgSampling, MsgAdc, MsgStarted>>

\* a DeviceError raised by device call j (0: DAQ122(), 1-3: connect and configure,
\* 4: start_collection, 5: read_data), lines 71-73: the with block, entered once
\* DAQ122() has returned, is left, then the except branch logs and calls finish()
RaiseDeviceError(s, j) ==
    /\ faults < env.faults
    /\ faults' = faults + 1
    /\ receiver' = [receiver EXCEPT ![s].pc = "done", ![s].exit = "error"]
    /\ daq' = IF j > 0 THEN [daq EXCEPT ![s] = Disconnect(@)] ELSE daq
    /\ PutLogs(s, SubSeq(SetupLogs, 1, IF j < 5 THEN j ELSE 0) \o ExceptLines)
    /\ state_is_measuring' = FALSE
    /\ stop_written' = StopWritten

\* device call k (1: is_connected, 2: configure_sampling_parameters,
\* 3: config_adc_channel) returned false: finish() and return, which leaves the
\* with block (lines 36-38, 42-44, 48-50)
Refuse(s, k) ==
    /\ env.refuse
    /\ receiver' = [receiver EXCEPT ![s].pc = "done", ![s].exit = "abort"]
    /\ daq' = [daq EXCEPT ![s] = Disconnect(@)]
    /\ PutLogs(s, SubSeq(SetupLogs, 1, k) \o FinishLines)
    /\ state_is_measuring' = FALSE
    /\ stop_written' = StopWritten
    /\ UNCHANGED faults

\* lines 34-58: the set-up of the device session, one device call after the other:
\* DAQ122() (call 0), is_connected (1), configure_sampling_parameters (2),
\* config_adc_channel (3), start_collection (4), then the settle sleep and
\* start = time.time().  Any call may raise DeviceError; calls 1 to 3 may return
\* false.  The set-up reads no shared state, so it is one step.
ReceiverSetup(s) ==
    /\ receiver[s].pc = "setup"
    /\ \/ /\ daq' = [daq EXCEPT ![s].st = "open"]
          /\ PutLogs(s, SetupLogs)
          /\ receiver' = [receiver EXCEPT ![s].pc = "while", ![s].clock = 0]
          /\ UNCHANGED <<faults, state_is_measuring, stop_written>>
       \/ \E k \in 1..3 : Refuse(s, k)
       \/ \E j \in 0..4 : RaiseDeviceError(s, j)
    /\ UNCHANGED <<gui_vars, finished_pending, store_vars, processor, plotter, data_queue,
                   processed_queue, measure, env, edits, sent, published>>

\* line 59: while self.state["is_measuring"]; a false flag leaves the with block
\* and logs line 70
ReceiverWhile(s) ==
    /\ receiver[s].pc = "while"
    /\ IF state_is_measuring
       THEN /\ receiver' = [receiver EXCEPT ![s] = NextPos(@)]
            /\ UNCHANGED <<daq, log_queue, log_hist>>
       ELSE /\ receiver' = [receiver EXCEPT ![s].pc = "done", ![s].exit = "stopped"]
            /\ daq' = [daq EXCEPT ![s] = Disconnect(@)]
            /\ PutLogs(s, <<MsgDisconnected>>)
    /\ UNCHANGED <<gui_vars, state_is_measuring, finished_pending, store_vars, processor,
                   plotter, data_queue, processed_queue, measure, env_vars, sent, published,
                   stop_written>>

\* lines 61-63: a successful read_data delivers read_elements_count readings, here
\* the first n readings of a signal that repeats q
Take(q, n) == [i \in 1..n |-> q[((i - 1) % Len(q)) + 1]]

\* a failed read that calls finish()
ReadFailedAborts(s, r) ==
    /\ receiver' = [receiver EXCEPT ![s] = NextPos([r EXCEPT !.fails = @ + 1])]
    /\ PutLogs(s, FinishLines)
    /\ state_is_measuring' = FALSE
    /\ stop_written' = StopWritten
    /\ UNCHANGED <<daq, faults, data_queue, sent>>

\* line 64, success false: nothing is put, the for loop goes on
ReadFailed(s, r) ==
    /\ receiver' = [receiver EXCEPT ![s] = NextPos([r EXCEPT !.fails = @ + 1])]
    /\ UNCHANGED <<daq, faults, data_queue, sent, log_queue, log_hist,
                   state_is_measuring, stop_written>>

\* lines 61-68: one read_data call of the sweep, taking t ticks, and what follows it
ReceiverRead(s) ==
    /\ receiver[s].pc = "read"
    /\ \E t \in env.ticks :
       LET r == [receiver[s] EXCEPT !.clock = Advance(@, t), !.reads = @ + 1]
           channel == r.selected_channels[r.idx]
       IN \/ \E data \in env.readings :
                LET burst == [channel |-> channel, time |-> r.clock,
                              voltage |-> Take(data, r.read_elements_count)] IN
                /\ data_queue' = [data_queue EXCEPT ![s] = Append(@, burst)]
                /\ sent' = [sent EXCEPT ![s] =
                       Append(@, [burst |-> burst, stopped |-> stop_written[s]])]
                /\ IF Expired(r.clock, r.duration)
                   THEN /\ receiver' = [receiver EXCEPT ![s] = NextPos([r EXCEPT !.expired = TRUE])]
                        /\ PutLogs(s, FinishLines)
                        /\ state_is_measuring' = FALSE
                        /\ stop_written' = StopWritten
                   ELSE /\ receiver' = [receiver EXCEPT ![s] = NextPos(r)]
                        /\ UNCHANGED <<log_queue, log_hist, state_is_measuring, stop_written>>
                /\ UNCHANGED <<daq, faults>>
          \/ /\ r.fails < env.fails
             /\ ReadFailed(s, r)
          \/ /\ RaiseDeviceError(s, 5)
             /\ UNCHANGED <<data_queue, sent>>
    /\ UNCHANGED <<gui_vars, finished_pending, store_vars, processor, plotter,
                   processed_queue, measure, env, edits, published>>

\* ----------------------------------------------------------- ProcessorProcess
\* lines 94-97: the value appended to the record
RecordValue(data, is_average) == IF is_average THEN Mean(data.voltage) ELSE data.voltage

\* line 93: the point put on processed_queue
Point(data) == [channel |-> data.channel, voltage |-> Mean(data.voltage), time |-> data.time]

\* a function() that takes the newest burst of the queue
ProcessorFunctionLifo(s) ==
    LET data == data_queue[s][Len(data_queue[s])] IN
    /\ data_queue' = [data_queue EXCEPT ![s] = SubSeq(@, 1, Len(@) - 1)]
    /\ processed_queue' = [processed_queue EXCEPT ![s] = Append(@, Point(data))]
    /\ measure' = [measure EXCEPT
           ![s].data[data.channel].voltage = Append(@, RecordValue(data, processor[s].is_average)),
           ![s].data[data.channel].time = Append(@, data.time)]

\* function(), lines 90-98
ProcessorFunction(s) ==
    LET data == Head(data_queue[s]) IN
    /\ data_queue' = [data_queue EXCEPT ![s] = Tail(@)]
    /\ processed_queue' = [processed_queue EXCEPT ![s] = Append(@, Point(data))]
    /\ measure' = [measure EXCEPT
           ![s].data[data.channel].voltage = Append(@, RecordValue(data, processor[s].is_average)),
           ![s].data[data.channel].time = Append(@, data.time)]

\* lines 100-102: one pass of while self.state["is_measuring"]: if not empty: function();
\* a false flag goes on to the sleep of line 104 and the drain
ProcessorWhile(s) ==
    /\ processor[s].pc = "while"
    /\ IF state_is_measuring
       THEN /\ data_queue[s] # <<>>
            /\ ProcessorFunction(s)
            /\ UNCHANGED processor
       ELSE /\ processor' = [processor EXCEPT ![s].pc = "drain"]
            /\ UNCHANGED <<data_queue, processed_queue, measure>>
    /\ UNCHANGED <<gui_vars, state_is_measuring, finished_pending, store_vars, receiver,
                   plotter, log_queue, daq, env_vars, hist_vars, stop_written>>

\* lines 105-107: one pass of the drain; an empty queue ends run()
ProcessorDrain(s) ==
    /\ processor[s].pc = "drain"
    /\ IF data_queue[s] # <<>>
       THEN /\ ProcessorFunction(s)
            /\ UNCHANGED processor
       ELSE /\ processor' = [processor EXCEPT ![s].pc = "done"]
            /\ UNCHANGED <<data_queue, processed_queue, measure>>
    /\ UNCHANGED <<gui_vars, state_is_measuring, finished_pending, store_vars, receiver,
                   plotter, log_queue, daq, env_vars, hist_vars, stop_written>>

\* -------------------------------------------------------------- PlotterThread
\* function(), lines 119-120: plot_data.emit([processed_queue.get()])
PlotterFunction(s) ==
    /\ published' = [published EXCEPT ![s] = Append(@, <<Head(processed_queue[s])>>)]
    /\ processed_queue' = [processed_queue EXCEPT ![s] = Tail(@)]

\* line 122: the flag the plotter polls is the store's, State.is_measuring
PlotterFlag == State_is_measuring

\* lines 122-124: one pass of while State.is_measuring: if not empty: function();
\* a false flag goes on to the sleep of line 126 and the drain
PlotterWhile(s) ==
    /\ plotter[s].pc = "while"
    /\ IF PlotterFlag
       THEN /\ processed_queue[s] # <<>>
            /\ PlotterFunction(s)
            /\ UNCHANGED plotter
       ELSE /\ plotter' = [plotter EXCEPT ![s].pc = "drain"]
            /\ UNCHANGED <<processed_queue, published>>
    /\ UNCHANGED <<gui_vars, state_is_measuring, finished_pending, store_vars, receiver,
                   processor, data_queue, log_queue, measure, daq, env_vars, sent, log_hist,
                   stop_written>>

\* lines 127-129: one pass of the drain; an empty queue goes on to line 131
PlotterDrain(s) ==
    /\ plotter[s].pc = "drain"
    /\ IF processed_queue[s] # <<>>
       THEN /\ PlotterFunction(s)
            /\ UNCHANGED plotter
       ELSE /\ plotter' = [plotter EXCEPT ![s].pc = "emit"]
            /\ UNCHANGED <<processed_queue, published>>
    /\ UNCHANGED <<gui_vars, state_is_measuring, finished_pending, store_vars, receiver,
                   processor, data_queue, log_queue, measure, daq, env_vars, sent, log_hist,
                   stop_written>>

\* line 131: self.finished.emit(), queued to the GUI thread
PlotterEmit(s) ==
    /\ plotter[s].pc = "emit"
    /\ plotter' = [plotter EXCEPT ![s].pc = "return"]
    /\ finished_pending' = [finished_pending EXCEPT ![s] = @ + 1]
    /\ UNCHANGED <<gui_vars, state_is_measuring, store_vars, receiver, processor,
                   queue_vars, measure, daq, env_vars, hist_vars, stop_written>>

\* run() returns (after line 131); PlotterThread is a QThread (line 110), and a
\* QThread emits its finished signal when run() has returned
PlotterReturn(s) ==
    /\ plotter[s].pc = "return"
    /\ plotter' = [plotter EXCEPT ![s].pc = "done"]
    /\ finished_pending' = [finished_pending EXCEPT ![s] = @ + 1]
    /\ UNCHANGED <<gui_vars, state_is_measuring, store_vars, receiver, processor,
                   queue_vars, measure, daq, env_vars, hist_vars, stop_written>>

\* ---------------------------------------------------------------- the system
Receiver(s) ==
    \/ ReceiverSetup(s)
    \/ ReceiverWhile(s)
    \/ ReceiverRead(s)

Processor(s) == ProcessorWhile(s) \/ ProcessorDrain(s)

Plotter(s) ==
    \/ PlotterWhile(s)
    \/ PlotterDrain(s)
    \/ PlotterEmit(s)
    \/ PlotterReturn(s)

\* what the operator does: the buttons and the configuration widgets
Operator ==
    \/ StartMeasure1
    \/ StopMeasure
    \/ \E d \in Durations : SetDuration(d)
    \/ \E b \in BOOLEAN : SetAverage(b)
    \/ \E n \in Elements : SetReadElements(n)
    \/ \E sel \in SUBSET Channels : SelectChannels(sel)

\* what the GUI thread does by itself: the rest of start_measure, the timer, the slots
Controller ==
    \/ StartMeasure2
    \/ CheckLogQueue
    \/ \E s \in Sessions : FinishMeasure(s)

Workers ==
    \/ \E s \in Sessions : Receiver(s)
    \/ \E s \in Sessions : Processor(s)
    \/ \E s \in Sessions : Plotter(s)

Next == Operator \/ Controller \/ Workers

Spec == Init /\ [][Next]_vars

SpecSessions == InitSeq /\ [][Next]_vars

\* The GUI thread runs its timer and its queued slots, and every started process
\* and thread is scheduled again and again; the operator owes nothing.
Fairness ==
    /\ WF_vars(Controller)
    /\ \A s \in Sessions : WF_vars(Receiver(s))
    /\ \A s \in Sessions : WF_vars(Processor(s))
    /\ \A s \in Sessions : WF_vars(Plotter(s))

FairSpec == InitFair /\ [][Next]_vars /\ Fairness

\* ------------------------------------------------------------------ properties
\* bursts of session s put on data_queue before False was written to the flag
RECURSIVE PreStop(_)
PreStop(q) == IF q = <<>> THEN 0 ELSE (IF Head(q).stopped THEN 0 ELSE 1) + PreStop(Tail(q))

\* bursts of session s the Processor has taken off data_queue
Taken(s) == Len(sent[s]) - Len(data_queue[s])

\* values appended to the record of session s, over all its channels
RECURSIVE Recorded(_, _)
Recorded(data, chans) ==
    IF chans = {} THEN 0
    ELSE LET c == Min(chans) IN Len(data[c].voltage) + Recorded(data, chans \ {c})

WorkersDone(s) ==
    receiver[s].pc = "done" /\ processor[s].pc = "done" /\ plotter[s].pc = "done"

\* C1: every burst put on data_queue before the stop flag was set is taken by the
\* Processor and appended to the record: a Processor that has terminated has taken
\* at least the bursts put before the flag was set.
C1_NoDropDrain ==
    \A s \in Sessions :
        processor[s].pc = "done" =>
            /\ Taken(s) >= PreStop(sent[s])
            /\ Recorded(measure[s].data, DOMAIN measure[s].data) >= PreStop(sent[s])

\* C2: whenever the completion signal has fired or finish_measure has finalized the
\* record, the Receiver and the Processor have terminated and both queues are empty.
C2_FinalizeAfterDrain ==
    \A s \in Sessions :
        (finished_pending[s] > 0 \/ measure[s].finished > 0) =>
            /\ receiver[s].pc = "done"
            /\ processor[s].pc = "done"
            /\ data_queue[s] = <<>>
            /\ processed_queue[s] = <<>>

\* C3: measure.save(finish=True) is invoked exactly once per session: never twice,
\* and once when the plotter is done and its emissions are delivered.
C3_SingleFinalize ==
    \A s \in Sessions :
        /\ measure[s].finished <= 1
        /\ (plotter[s].pc = "done" /\ finished_pending[s] = 0) => measure[s].finished = 1

\* from the accepted start request of session s until finish_measure
InSession(s) == s = cur /\ measure[s].finished = 0

\* C4: within a session, once False has been written to state["is_measuring"], no
\* step makes it True again.
C4_MonotonicStop ==
    [][\A s \in Sessions :
          (InSession(s) /\ stop_written[s] /\ ~state_is_measuring) => ~state_is_measuring']_vars

\* C5: the plotter leaves its consume loop, and emits its completion signal, only
\* after the stop flag of its session has been set.
C5_PlotterPollsStopFlag ==
    \A s \in Sessions :
        (plotter[s].pc \in {"drain", "emit", "return", "done"} \/ finished_pending[s] > 0)
            => stop_written[s]

\* C6: every point put on processed_queue is published before the plotter signals
\* completion: once it has signalled, no point is waiting on processed_queue.
C6_LiveDeliveryDrain ==
    \A s \in Sessions :
        plotter[s].pc \in {"return", "done"} =>
            /\ processed_queue[s] = <<>>
            /\ Len(published[s]) = Taken(s)

\* session s has reached Finished: its workers have terminated, its record is
\* finalized and the start button is enabled
Finished(s) == WorkersDone(s) /\ measure[s].finished >= 1 /\ btn_start_enabled

\* C7: once the stop flag of a session is set, under fair scheduling its Receiver,
\* Processor and plotter terminate, finish_measure finalizes its record and the
\* start button is enabled again.
C7_ReachesFinished == \A s \in Sessions : stop_written[s] ~> Finished(s)

C7_Witness == \E s \in Sessions : stop_written[s] /\ Finished(s) /\ receiver[s].exit = "error"

\* C8 as claimed: a Receiver that aborted on a connect/configure call returning
\* false has put exactly one error-tagged line on the log channel.
C8_AbortErrorTagged ==
    \A s \in Sessions : receiver[s].exit = "abort" => Count(MsgError, log_hist[s]) = 1

\* C8, amended: a Receiver that aborted on a connect/configure call returning false
\* has put no error-tagged line, has put the line "Receiver finished." exactly
\* once, has written False to the flag and has put no burst on data_queue.
C8_AbortLogged ==
    \A s \in Sessions :
        receiver[s].exit = "abort" =>
            /\ Count(MsgError, log_hist[s]) = 0
            /\ Count(MsgFinished, log_hist[s]) = 1
            /\ stop_written[s]
            /\ sent[s] = <<>>

C8_Witness == \E s \in Sessions : receiver[s].exit = "abort" /\ Len(log_hist[s]) = 4

\* C9: when a burst exceeds the duration in the middle of a sweep, the stop flag is
\* set only after the sweep: while the Receiver reads the later channels of that
\* sweep it has not yet run finish().
C9_DurationBoundary ==
    \A s \in Sessions :
        (receiver[s].expired /\ receiver[s].pc = "read") => Count(MsgFinished, log_hist[s]) = 0

\* C10: a start request with no channel selected changes nothing: no display clear,
\* no queue, no record, no worker, flag and start button untouched.
C10_EmptySelectionRejected ==
    [][(State_selected_channels = {} /\ last_start' # last_start) =>
          /\ last_start' = "rejected"
          /\ UNCHANGED <<gui_pc, cur, btn_start_enabled, log_timer, state_is_measuring,
                         plot_clears, finished_pending, store_vars, worker_vars,
                         queue_vars, measure, daq, hist_vars, stop_written>>]_vars

C10_Witness == last_start = "rejected" /\ cur = 0 /\ plot_clears = 0

\* C11: every accepted start request allocates a new stop flag and new channels:
\* the workers of two sessions hold different flag objects and different queues.
C11_FreshPrimitives ==
    \A s, t \in Sessions :
        (s < t /\ receiver[t].pc # "new") =>
            /\ receiver[s].state # receiver[t].state
            /\ processor[s].state # processor[t].state
            /\ receiver[s].data_queue # receiver[t].data_queue
            /\ receiver[s].log_queue # receiver[t].log_queue
            /\ processor[s].data_queue # processor[t].data_queue
            /\ processor[s].processed_queue # processor[t].processed_queue

\* C12: a Receiver that has left run() after the device session was opened has
\* disconnected it exactly once, the device is never disconnected twice, and a
\* disconnected device belongs to a Receiver that makes no more calls.  (A Receiver
\* whose DAQ122() call raised has only the two lines of the except branch in its
\* log and has no device session.)
C12_DeviceReleased ==
    \A s \in Sessions :
        /\ daq[s].disconnects <= 1
        /\ daq[s].st = "closed" => (receiver[s].pc = "done" /\ daq[s].disconnects = 1)
        /\ receiver[s].pc = "done" =>
               \/ daq[s].st = "closed" /\ daq[s].disconnects = 1
               \/ /\ daq[s].st = "none"
                  /\ daq[s].disconnects = 0
                  /\ receiver[s].exit = "error"
                  /\ Len(log_hist[s]) = 2

C12_Witness ==
    \E s \in Sessions :
        /\ receiver[s].exit = "error"
        /\ receiver[s].reads >= 2
        /\ daq[s].st = "closed"

\* the bursts of channel c among the bursts the Receiver produced
RECURSIVE BurstsFor(_, _)
BurstsFor(c, q) ==
    IF q = <<>> THEN <<>>
    ELSE (IF Head(q).burst.channel = c THEN <<Head(q).burst>> ELSE <<>>) \o BurstsFor(c, Tail(q))

\* the points of channel c among the batches published to the display
RECURSIVE PointsFor(_, _)
PointsFor(c, q) ==
    IF q = <<>> THEN <<>>
    ELSE (IF Head(q)[1].channel = c THEN <<Head(q)[1]>> ELSE <<>>) \o PointsFor(c, Tail(q))

\* C13: for every channel, the points published to the display and the (value,
\* time) pairs of the record are, in order, those of the first bursts the Receiver
\* produced for that channel.
C13_FifoPerChannel ==
    \A s \in Sessions : \A c \in Channels :
        LET bs == BurstsFor(c, sent[s])
            ps == PointsFor(c, published[s])
        IN /\ Len(ps) <= Len(bs)
           /\ \A i \in 1..Len(ps) : ps[i] = Point(bs[i])
           /\ c \in DOMAIN measure[s].data =>
                  LET rec == measure[s].data[c] IN
                  /\ Len(rec.voltage) <= Len(bs)
                  /\ Len(rec.time) = Len(rec.voltage)
                  /\ \A i \in 1..Len(rec.voltage) :
                         /\ rec.voltage[i] = RecordValue(bs[i], processor[s].is_average)
                         /\ rec.time[i] = bs[i].time

C13_Witness ==
    \E s \in Sessions : \E c \in Channels :
        /\ c \in DOMAIN measure[s].data
        /\ Len(measure[s].data[c].voltage) = 2
        /\ measure[s].data[c].voltage[1] # measure[s].data[c].voltage[2]
        /\ Len(PointsFor(c, published[s])) = 2

\* C14: for every burst the Processor takes, one value (the mean with averaging,
\* the unchanged readings without) is the value of the point put on
\* processed_queue and the value appended to the record under the burst's channel,
\* both with the burst's time.
C14_AggregationResult ==
    [][\A s \in Sessions :
          Len(data_queue'[s]) < Len(data_queue[s]) =>
              LET d == Head(data_queue[s])
                  v == IF processor[s].is_average THEN Mean(d.voltage) ELSE d.voltage
                  p == processed_queue'[s][Len(processed_queue'[s])]
                  rec == measure'[s].data[d.channel]
              IN /\ p = [channel |-> d.channel, voltage |-> v, time |-> d.time]
                 /\ rec.voltage[Len(rec.voltage)] = v
                 /\ rec.time[Len(rec.time)] = d.time]_vars

\* C15: a Receiver whose device call raised DeviceError has put exactly one
\* error-tagged line, has written False to the flag in that step and has
\* terminated: it reads no more, puts no more bursts and logs no more.
C15_DeviceFaultTerminal ==
    [][\A s \in Sessions :
          receiver'[s].exit = "error" =>
              /\ Count(MsgError, log_hist'[s]) = 1
              /\ stop_written'[s]
              /\ receiver'[s].pc = "done"
              /\ receiver[s].exit # "error" => ~state_is_measuring'
              /\ receiver[s].exit = "error" =>
                     /\ receiver'[s] = receiver[s]
                     /\ sent'[s] = sent[s]
                     /\ log_hist'[s] = log_hist[s]]_vars

C15_Witness ==
    \E s \in Sessions :
        /\ receiver[s].exit = "error"
        /\ sent[s] # <<>>
        /\ Count(MsgStarted, log_hist[s]) = 1

\* C16: a read_data call that returns ok = false puts no burst, writes no flag,
\* logs no sentinel, and the Receiver goes on with the next channel of the sweep
\* or, after the last channel, with the next poll of the flag.
C16_FailedReadContinues ==
    [][\A s \in Sessions :
          receiver'[s].fails > receiver[s].fails =>
              /\ sent'[s] = sent[s]
              /\ data_queue'[s] = data_queue[s]
              /\ log_hist'[s] = log_hist[s]
              /\ state_is_measuring' = state_is_measuring
              /\ stop_written' = stop_written
              /\ receiver'[s].exit = "none"
              /\ IF receiver[s].idx < Len(receiver[s].selected_channels)
                 THEN receiver'[s].pc = "read" /\ receiver'[s].idx = receiver[s].idx + 1
                 ELSE receiver'[s].pc = "while"]_vars

C16_Witness ==
    \E s \in Sessions :
        /\ receiver[s].fails = 1
        /\ receiver[s].reads = 2
        /\ Len(sent[s]) = 1
        /\ sent[s][1].burst.channel = 2
        /\ ~stop_written[s]

\* the elements of a sequence
Range(q) == {q[i] : i \in 1..Len(q)}

\* C17: the workers use the configuration the store held when start_measure ran:
\* an accepted start copies duration, elements per request, selection and averaging
\* flag; no later step changes the copies or the channels of the record; the
\* Receiver reads only channels of its copy, asks for as many readings as its copy
\* says, and calls finish() exactly when a burst's time exceeds its copy of the
\* duration; the Processor appends the value its copy of the averaging flag selects.
C17_ConfigurationSnapshot ==
    [][/\ cur' # cur =>
             /\ receiver'[cur'].duration = State_duration
             /\ receiver'[cur'].read_elements_count = State_read_elements_count
             /\ Range(receiver'[cur'].selected_channels) = State_selected_channels
             /\ processor'[cur'].is_average = State_is_average
             /\ DOMAIN measure'[cur'].data = State_selected_channels
       /\ \A s \in Sessions :
             receiver[s].pc # "new" =>
                 /\ receiver'[s].duration = receiver[s].duration
                 /\ receiver'[s].read_elements_count = receiver[s].read_elements_count
                 /\ receiver'[s].selected_channels = receiver[s].selected_channels
                 /\ processor'[s].is_average = processor[s].is_average
                 /\ DOMAIN measure'[s].data = DOMAIN measure[s].data
                 /\ sent'[s] # sent[s] =>
                        LET b == sent'[s][Len(sent'[s])].burst IN
                        /\ b.channel \in Range(receiver[s].selected_channels)
                        /\ Len(b.voltage) = receiver[s].read_elements_count
                        /\ (log_hist'[s] # log_hist[s]) <=> (b.time > receiver[s].duration)
                 /\ Len(data_queue'[s]) < Len(data_queue[s]) =>
                        LET d == Head(data_queue[s])
                            rec == measure'[s].data[d.channel]
                        IN rec.voltage[Len(rec.voltage)] =
                               (IF processor[s].is_average THEN Mean(d.voltage) ELSE d.voltage)]_vars

C17_Witness ==
    \E s \in Sessions :
        /\ receiver[s].expired
        /\ receiver[s].duration # State_duration
        /\ Len(sent[s]) = 2

\* C18: neither the Receiver nor the Processor leaves its main loop on the flag
\* unless False was written to the flag in its session (a stop request, an
\* expiry or an abort).
C18_NoPrestartStop ==
    \A s \in Sessions :
        (processor[s].pc \in {"drain", "done"} \/ receiver[s].exit = "stopped")
            => stop_written[s]

\* the Receiver or the Processor of session s is running
Alive(s) ==
    \/ receiver[s].pc \notin {"new", "done"}
    \/ processor[s].pc \notin {"new", "done"}

\* C19: workers of two sessions are never alive together.
C19_OneSessionAtATime ==
    \A s, t \in Sessions : s < t => ~(Alive(s) /\ Alive(t))

\* C20: every burst the Receiver puts on data_queue, at any time, is taken and
\* appended to the record before the Processor terminates: a terminated Processor
\* leaves no burst on data_queue.
C20_NoTailLoss ==
    \A s \in Sessions :
        processor[s].pc = "done" =>
            /\ data_queue[s] = <<>>
            /\ Recorded(measure[s].data, DOMAIN measure[s].data) = Len(sent[s])

====
